---- MODULE Spec2Model ----
(***************************************************************************)
(* A model of the Enshrouded Crafting Index page (src/app/page.tsx, the    *)
(* second, current version of the component starting at line 237): the     *)
(* Home component's state, its handlers, the SidePanel fetch-on-top        *)
(* effect, the two-call Obtaining fetch and the derived result list.       *)
(***************************************************************************)
EXTENDS Integers, Sequences, FiniteSets, TLC

VARIABLES
    items,            \* useItems().items: the loaded dataset (line 324)
    crafters,         \* useItems().crafters: the payload's list or null (line 325)
    workshops,        \* useItems().workshops: the payload's list or null (line 326)
    loading,          \* useItems().loading (line 327)
    error,            \* useItems().error: a message or null (line 328)
    query,            \* Home: useState("") (line 655)
    crafterFilter,    \* Home: useState("All") (line 656)
    workshopFilter,   \* Home: useState("All") (line 657)
    sortKey,          \* Home: useState("CraftedItem") (line 658)
    sortDir,          \* Home: useState("asc") (line 659)
    panelStack,       \* Home: useState([]) (line 660); records by dataset position
    obtainingByItem,  \* Home: useState({}) (line 661)
    inflight,         \* promises of fetchObtainingSection not yet settled
    unhandled,        \* TRUE once a rejection escaped every handler
    search,           \* SearchInput: local (line 372) and the pending timer
                      \* of its effect (lines 379-382)
    run,              \* a run of one of the scripts or record functions:
                      \* its input and what it gave
    last              \* the handler that ran last: its name, the item name
                      \* it requested or settled, and how the promise settled

vars == <<items, crafters, workshops, loading, error,
          query, crafterFilter, workshopFilter, sortKey, sortDir,
          panelStack, obtainingByItem, inflight, unhandled, search, run, last>>

storeVars == <<items, crafters, workshops, loading, error>>
loadVars == <<crafters, workshops, loading, error>>

fetchVars == <<obtainingByItem, inflight, unhandled>>
queryVars == <<query, crafterFilter, workshopFilter, sortKey, sortDir>>

\* everything of the page, which no script and no record function touches
pageVars == <<storeVars, queryVars, panelStack, fetchVars, search, last>>

----------------------------------------------------------------------------
(* Bounds of the model *)

\* fetches in flight at one time, over all item names
MaxInflight == 2
\* length of the Navigation Stack
MaxStack == 3
\* records of a dataset drawn for the Query Engine
MaxItems == 3
\* items of a compact payload
MaxShorts == 2
\* ingredients and quantities of a record given to shorten and to the card
MaxSources == 2
MaxQuantities == 3
\* elements of an array the wiki answers with
MaxPayload == 3
\* ticks of the model's clock in the delay of the search box's timer
TicksPerDelay == 2

\* the delay of the search box's timer (line 380)
DebounceMs == 180

----------------------------------------------------------------------------
(* Values *)

\* JSON null (CraftingRecipe.Workshop: string | null)
Null == "<null>"

\* null where a list of strings is expected (lines 325-326)
NoList == <<Null>>

\* The strings of the model in the order of JavaScript's < on strings
\* (UTF-16 code units): "" first, then upper case before lower case.
StrOrder == <<"", "Axe", "Forge", "Iron", "Iron Axe", "Kiln", "Miner", "Smith", "Wood", "smith">>

StrRank(s) == CHOOSE i \in 1..Len(StrOrder) : StrOrder[i] = s

\* a < b on two strings (line 736)
StrLess(a, b) == StrRank(a) < StrRank(b)

\* a key that an object does not have
Absent == "<absent>"
AbsentList == <<Absent>>

\* a list of numbers that is missing or null; the quantities of the data are
\* positive
AbsentQuantities == <<-1>>
NullQuantities == <<-2>>

\* the record of the dataset (types/items.ts)
CraftingRecipe(n, c, w, w2, q, s, sq) ==
    [CraftedItem |-> n, Crafter |-> c, Workshop |-> w, Workshop2 |-> w2,
     CraftedQuantity |-> q, SourceItem |-> s, SourceQuantity |-> sq]

\* a record that makes one of a single station out of one of each of s
Recipe(n, c, w, s) ==
    CraftingRecipe(n, c, w, Null, "1", s, [i \in 1..Len(s) |-> 1])

\* The dataset of the session: Axe is made of Iron and Wood, Iron is itself
\* craftable, Wood is not; a second Axe recipe repeats the name.
SessionItems ==
    << Recipe("Axe", "Smith", "Forge", <<"Iron", "Wood">>),
       Recipe("Iron", "Miner", Null, <<"Axe">>),
       Recipe("Axe", "Miner", Null, <<>>) >>

SeqRange(s) == {s[i] : i \in 1..Len(s)}

\* the names that have a recipe
CraftedNames(its) == {its[i].CraftedItem : i \in 1..Len(its)}

\* every name an Obtaining state can be kept under
ItemNames(its) ==
    {its[i].CraftedItem : i \in 1..Len(its)}
        \cup UNION {SeqRange(its[i].SourceItem) : i \in 1..Len(its)}

----------------------------------------------------------------------------
(* SearchInput (lines 363-394): the text of the box and the one timer of   *)
(* its second effect                                                       *)

\* the clock of the model ticks every TickMs milliseconds
TickMs == DebounceMs \div TicksPerDelay

\* ticks of the clock until a timer set now fires
Ticks == DebounceMs \div TickMs

\* local, whether a timer is pending, the value its callback captured, the
\* ticks left until it fires, and the ticks since local last changed
Box(local, pending, val, left, idle) ==
    [local |-> local, pending |-> pending, val |-> val, left |-> left, idle |-> idle]

\* Home renders its controls once loading is over without an error (lines
\* 785-797)
Rendered == ~loading /\ (error = Null \/ error = "")

\* SearchInput is not rendered yet (lines 785-797)
Unmounted == Box("", FALSE, "", 0, 0)

\* after the first render: useState(value) and the timer of the mount
\* effect (lines 372, 379-382)
Mounted(value) == Box(value, TRUE, value, Ticks, 0)

\* the box holds value and its timer has fired
Quiet(value) == Box(value, FALSE, "", 0, Ticks)

\* the effect of lines 379-382 without its cleanup: a timer that is pending
\* stays, and the new one is never seen to fire before it
RestartTimerKeepingPending(s, v) ==
    IF s.pending THEN Box(v, TRUE, s.val, s.left, 0)
    ELSE Box(v, TRUE, v, Ticks, 0)

\* the effect of lines 379-382 after local changed to v: clearTimeout of
\* the pending timer, then setTimeout(() => onChange(v), 180)
RestartTimer(s, v) == Box(v, TRUE, v, Ticks, 0)

\* setLocal(v) (lines 376, 388) and the effect that follows a change
setLocal(s, v) == IF v = s.local THEN s ELSE RestartTimer(s, v)

\* the effect of lines 375-377, which runs when the prop value changed:
\* if (value === "") setLocal("")
ParentSync(s, oldValue, newValue) ==
    IF newValue # oldValue /\ newValue = "" THEN setLocal(s, "") ELSE s

\* no script or record function has run
Ran(fn, arg, out) == [fn |-> fn, arg |-> arg, out |-> out]
NoRun == Ran("none", <<>>, <<>>)

----------------------------------------------------------------------------
(* ObtainingState (line 248); a missing key of the table is Undefined *)

Undefined == [kind |-> "undefined", val |-> ""]
Loading   == [kind |-> "loading", val |-> ""]
NoSection == [kind |-> "noSection", val |-> ""]
TextOf(t) == [kind |-> "text", val |-> t]
ErrorOf(m) == [kind |-> "error", val |-> m]

----------------------------------------------------------------------------
(* fetchObtainingSection (lines 289-308) and stripObtainingToPlainText     *)
(* (lines 256-286): what the two network calls can answer, and what the    *)
(* code makes of each answer.                                              *)

\* String.prototype.toLowerCase on the section titles of the model (line 297)
ToLowerCase(s) ==
    CASE s = "Obtaining" -> "obtaining"
      [] s = "OBTAINING" -> "obtaining"
      [] s = "Usage" -> "usage"
      [] OTHER -> s

\* String.prototype.trim on the texts of the model (lines 268, 272, 681)
Trim(s) ==
    CASE s = " " -> ""
      [] s = "  " -> ""
      [] s = " Mined from ore. " -> "Mined from ore."
      [] OTHER -> s

\* answers of the first call (prop=sections): HTTP status, the JSON body's
\* error.info (or "" when the body has no error field), the section titles.
SectionsResponses ==
    { [ok |-> FALSE, status |-> "500", error |-> "", sections |-> <<>>],
      [ok |-> TRUE, status |-> "200", error |-> "missingtitle", sections |-> <<>>],
      [ok |-> TRUE, status |-> "200", error |-> "", sections |-> <<>>],
      [ok |-> TRUE, status |-> "200", error |-> "", sections |-> <<"Usage">>],
      [ok |-> TRUE, status |-> "200", error |-> "", sections |-> <<"Usage", "OBTAINING">>],
      [ok |-> TRUE, status |-> "200", error |-> "", sections |-> <<"Obtaining">>] }

\* One element of the parsed markup: its tag, the id of the headline it
\* holds ("" when none) and its innerText.
El(tag, id, text) == [tag |-> tag, id |-> id, text |-> text]

\* isHeading (lines 251-253)
isHeading(el) == el.tag \in {"h1", "h2", "h3", "h4", "h5", "h6"}

\* Section markup the second call can return: the sibling elements of the
\* parser output, in document order.
DocText  == << El("h2", "Obtaining", "Obtaining"), El("p", "", " Mined from ore. "),
               El("p", "", " "), El("p", "", "Rare"),
               El("h3", "", "Notes"), El("p", "", "Sold by the Smith") >>
DocBlank == << El("h2", "Obtaining", "Obtaining"), El("p", "", " ") >>
DocH3    == << El("h3", "Obtaining", "Obtaining"), El("p", "", "Rare") >>
DocOther == << El("p", "", "Intro"), El("h2", "Sources", "Sources"),
               El("p", "", " Mined from ore. "), El("p", "", "Rare") >>
DocPlain == << El("p", "", "Rare") >>

HtmlDocs == {DocText, DocBlank, DocH3, DocOther, DocPlain}

\* markup on which the reduction itself raises (DOMParser or innerText
\* failing inside the then-callback of line 674)
DocThrows == << El("#throws", "", "") >>

\* the value of parse.text["*"] when it is not a string (line 306)
NotAString == << El("", "", "") >>

\* answers of the second call (prop=text)
TextResponses ==
    { [ok |-> FALSE, status |-> "500", error |-> "", html |-> NotAString],
      [ok |-> TRUE, status |-> "200", error |-> "missingtitle", html |-> NotAString],
      [ok |-> TRUE, status |-> "200", error |-> "", html |-> NotAString] }
    \cup { [ok |-> TRUE, status |-> "200", error |-> "", html |-> d] :
                d \in HtmlDocs \cup {DocThrows} }

\* parts.join("\n\n") (lines 272, 285)
RECURSIVE Join(_)
Join(parts) ==
    IF parts = <<>> THEN ""
    ELSE IF Len(parts) = 1 THEN parts[1]
    ELSE parts[1] \o "\n\n" \o Join(Tail(parts))

\* the while loops of lines 266-271 and 279-284: the trimmed, non-empty
\* texts of the siblings after position k up to the next heading
RECURSIVE Collect(_, _)
Collect(doc, k) ==
    IF k > Len(doc) \/ isHeading(doc[k]) THEN <<>>
    ELSE IF Trim(doc[k].text) # "" THEN <<Trim(doc[k].text)>> \o Collect(doc, k + 1)
    ELSE Collect(doc, k + 1)

\* root.querySelector("#Obtaining") (lines 260-261): the position of the
\* first element holding the headline, 0 when there is none
FirstObtainingHeadline(doc) ==
    IF \E i \in 1..Len(doc) : doc[i].id = "Obtaining"
    THEN CHOOSE i \in 1..Len(doc) :
            doc[i].id = "Obtaining" /\ \A j \in 1..(i - 1) : doc[j].id # "Obtaining"
    ELSE 0

\* root.querySelector("h1, h2, h3, h4, h5, h6") (line 263)
FirstHeading(doc) ==
    IF \E i \in 1..Len(doc) : isHeading(doc[i])
    THEN CHOOSE i \in 1..Len(doc) :
            isHeading(doc[i]) /\ \A j \in 1..(i - 1) : ~isHeading(doc[j])
    ELSE 0

\* stripObtainingToPlainText (lines 256-286)
stripObtainingToPlainText(html) ==
    LET k == FirstObtainingHeadline(html)
        h == FirstHeading(html)
    IN  IF k = 0
        THEN IF h # 0 THEN Trim(Join(Collect(html, h + 1))) ELSE ""
        ELSE IF html[k].tag # "h2" THEN ""
        ELSE Trim(Join(Collect(html, k + 1)))

\* What a fetch settles with: the promise of fetchObtainingSection fulfils
\* with null or with the markup, or rejects with an Error.
Rejected(msg) == [tag |-> "rejected", msg |-> msg, html |-> NotAString]
Fulfilled(html) == [tag |-> "fulfilled", msg |-> "", html |-> html]
FulfilledNull == [tag |-> "null", msg |-> "", html |-> NotAString]
Pending == [tag |-> "pending", msg |-> "", html |-> NotAString]

\* sections.find((s) => (s.line ?? "").toLowerCase() === "obtaining") (line 297)
HasObtainingSection(sections) ==
    \E i \in 1..Len(sections) : ToLowerCase(sections[i]) = "obtaining"

\* lines 292-299: the first call's answer either settles the promise or
\* leads to the second call (Pending)
AfterSections(r) ==
    IF ~r.ok THEN Rejected("Sections: " \o r.status)
    ELSE IF r.error # "" THEN Rejected(r.error)
    ELSE IF ~HasObtainingSection(r.sections) THEN FulfilledNull
    ELSE Pending

\* lines 301-307: the second call's answer settles the promise
AfterText(r) ==
    IF ~r.ok THEN Rejected("Text: " \o r.status)
    ELSE IF r.error # "" THEN Rejected(r.error)
    ELSE IF r.html = NotAString THEN Rejected("No content")
    ELSE Fulfilled(r.html)

\* what running a callback gives: a new table, or an exception
Returned(table) == [tag |-> "returned", table |-> table, msg |-> ""]
Thrown(table, msg) == [tag |-> "thrown", table |-> table, msg |-> msg]

\* { ...prev, [itemName]: v } (lines 670, 676, 679-682, 684)
SetKeyDroppingOthers(prev, itemName, v) ==
    [n \in DOMAIN prev |-> IF n = itemName THEN v ELSE Undefined]

SetKey(prev, itemName, v) == [prev EXCEPT ![itemName] = v]

\* the then-callback without the test of line 681: whatever was extracted
\* is kept as text
ThenCallbackKeepingBlank(prev, itemName, outcome) ==
    IF outcome.tag = "null" THEN Returned(SetKey(prev, itemName, NoSection))
    ELSE IF outcome.html = DocThrows THEN Thrown(prev, "TypeError: innerText")
    ELSE Returned(SetKey(prev, itemName, TextOf(stripObtainingToPlainText(outcome.html))))

\* the then-callback of fetchObtaining (lines 674-683), run on the value
\* the promise fulfilled with
ThenCallback(prev, itemName, outcome) ==
    IF outcome.tag = "null" THEN Returned(SetKey(prev, itemName, NoSection))
    ELSE IF outcome.html = DocThrows THEN Thrown(prev, "TypeError: innerText")
    ELSE LET text == stripObtainingToPlainText(outcome.html)
         IN  Returned(SetKey(prev, itemName,
                             IF Trim(text) # "" THEN TextOf(text) ELSE NoSection))

\* the catch-callback of fetchObtaining (line 684): String(e) of an Error
\* with message m is "Error: m"
CatchCallback(prev, itemName, msg) == SetKey(prev, itemName, ErrorOf(msg))

\* .then(cb, handler): the handler sees the promise's rejection only
ChainThenOnly(prev, itemName, outcome) ==
    IF outcome.tag = "rejected"
    THEN [table |-> CatchCallback(prev, itemName, "Error: " \o outcome.msg), escaped |-> FALSE]
    ELSE LET r == ThenCallback(prev, itemName, outcome)
         IN  [table |-> r.table, escaped |-> r.tag = "thrown"]

\* .then(cb).catch(handler) (lines 673-684): the handler sees the promise's
\* rejection and whatever cb throws; nothing is left to escape
Chain(prev, itemName, outcome) ==
    IF outcome.tag = "rejected"
    THEN [table |-> CatchCallback(prev, itemName, "Error: " \o outcome.msg), escaped |-> FALSE]
    ELSE LET r == ThenCallback(prev, itemName, outcome)
         IN  IF r.tag = "thrown"
             THEN [table |-> CatchCallback(prev, itemName, r.msg), escaped |-> FALSE]
             ELSE [table |-> r.table, escaped |-> FALSE]

----------------------------------------------------------------------------
(* fetchObtaining (lines 664-685) *)

InflightOf(fl, n) == fl[n].sections + fl[n].text

RECURSIVE SumOver(_, _)
SumOver(fl, S) ==
    IF S = {} THEN 0
    ELSE LET n == CHOOSE x \in S : TRUE IN InflightOf(fl, n) + SumOver(fl, S \ {n})

TotalInflight(fl) == SumOver(fl, DOMAIN fl)

\* the state updater of lines 666-671, without the check of line 669
RequestUpdaterNoCacheCheck(prev, itemName) ==
    LET cur == prev[itemName]
    IN  IF cur = Loading THEN prev
        ELSE SetKey(prev, itemName, Loading)

\* the state updater of lines 666-671
RequestUpdater(prev, itemName) ==
    LET cur == prev[itemName]
    IN  IF cur = Loading THEN prev
        ELSE IF cur.kind \in {"text", "noSection"} THEN prev
        ELSE SetKey(prev, itemName, Loading)

\* fetchObtainingSection(itemName) is called (line 673): its first network
\* call is issued (line 292)
StartFetch(fl, itemName) ==
    [fl EXCEPT ![itemName].sections = @ + 1]

\* fetchObtaining(itemName): the updater, then the call of line 673
fetchObtaining(itemName) ==
    /\ TotalInflight(inflight) < MaxInflight
    /\ obtainingByItem' = RequestUpdater(obtainingByItem, itemName)
    /\ inflight' = StartFetch(inflight, itemName)

\* a side panel without the effect
FetchOnTopMissing(newStack) == UNCHANGED <<obtainingByItem, inflight>>

\* SidePanel's effect (lines 580-587), run after a render with the stack
\* newStack: it requests the top's item when the table has no key for it
FetchOnTop(newStack) ==
    IF newStack # <<>> /\ obtainingByItem[items[newStack[Len(newStack)]].CraftedItem] = Undefined
    THEN fetchObtaining(items[newStack[Len(newStack)]].CraftedItem)
    ELSE UNCHANGED <<obtainingByItem, inflight>>

----------------------------------------------------------------------------
(* Derived values of Home: craftableByName (lines 709-715) and the result  *)
(* list `filtered` (lines 728-739). Lists hold dataset positions, so two   *)
(* records with the same fields stay distinct objects.                     *)

\* the map built with map.set on every record: the last record of a name
\* stays
craftableByNameLastWins(its, name) ==
    IF name # "" /\ \E i \in 1..Len(its) : its[i].CraftedItem = name
    THEN CHOOSE i \in 1..Len(its) :
            /\ its[i].CraftedItem = name
            /\ \A j \in (i + 1)..Len(its) : its[j].CraftedItem # name
    ELSE 0

\* craftableByName.get(name): the position of the first record with that
\* (truthy) CraftedItem, 0 when the map has no such key
craftableByName(its, name) ==
    IF name # "" /\ \E i \in 1..Len(its) : its[i].CraftedItem = name
    THEN CHOOSE i \in 1..Len(its) :
            /\ its[i].CraftedItem = name
            /\ \A j \in 1..(i - 1) : its[j].CraftedItem # name
    ELSE 0

\* The queries typed in the model: empty, blank, and "ax".
Queries == {"", "  ", "ax"}

\* Fuse's score of a CraftedItem for a query (keys: ["CraftedItem"],
\* threshold 0.15, lines 719-726): 0 is the best match, -1 is no match.
\* "ax" is found at the start of "Axe" and further right in "Iron Axe".
FuseScore(q, name) ==
    CASE q = "ax" /\ name = "Axe" -> 0
      [] q = "ax" /\ name = "Iron Axe" -> 1
      [] OTHER -> -1

\* Array.prototype.filter: the elements of list that are in keep, in the
\* order of list
RECURSIVE Keep(_, _)
Keep(list, keep) ==
    IF list = <<>> THEN <<>>
    ELSE IF Head(list) \in keep THEN <<Head(list)>> \o Keep(Tail(list), keep)
    ELSE Keep(Tail(list), keep)

Positions(its) == [i \in 1..Len(its) |-> i]

\* fuse.search(query).map((r) => r.item) (line 729): the matching records,
\* best score first, dataset order among equal scores
fuseSearch(its, q) ==
    LET best == {i \in 1..Len(its) : FuseScore(q, its[i].CraftedItem) = 0}
        rest == {i \in 1..Len(its) : FuseScore(q, its[i].CraftedItem) = 1}
    IN  Keep(Positions(its), best) \o Keep(Positions(its), rest)

\* line 729 without the bypass: every query goes to the index, which
\* matches nothing on an empty pattern
TextStageAlwaysSearching(its, q) == fuseSearch(its, q)

\* line 729 testing the query without trimming it
TextStageUntrimmed(its, q) ==
    IF q # "" THEN fuseSearch(its, q) ELSE Positions(its)

\* line 729
TextStage(its, q) ==
    IF Trim(q) # "" THEN fuseSearch(its, q) ELSE Positions(its)

\* lines 730-731 with the second filter run on the list the first one was
\* given
CategoricalStageOnTextList(its, list, cf, wf) ==
    LET byCrafter == {i \in 1..Len(its) : its[i].Crafter = cf}
        byWorkshop == {i \in 1..Len(its) : its[i].Workshop = wf}
        l1 == IF cf # "All" THEN Keep(list, byCrafter) ELSE list
    IN  IF wf # "All" THEN Keep(list, byWorkshop) ELSE l1

\* lines 730-731
CategoricalStage(its, list, cf, wf) ==
    LET byCrafter == {i \in 1..Len(its) : its[i].Crafter = cf}
        byWorkshop == {i \in 1..Len(its) : its[i].Workshop = wf}
        l1 == IF cf # "All" THEN Keep(list, byCrafter) ELSE list
    IN  IF wf # "All" THEN Keep(l1, byWorkshop) ELSE l1

\* a[sortKey] ?? "" (lines 734-735)
SortVal(r, key) ==
    LET v == CASE key = "CraftedItem" -> r.CraftedItem
               [] key = "Crafter" -> r.Crafter
               [] key = "Workshop" -> r.Workshop
    IN  IF v = Null THEN "" ELSE v

\* the comparator with the direction applied to the whole list instead
\* (sort ascending, then reverse): equal keys compare by position
CompareReversing(its, a, b, key, dir) ==
    LET aVal == SortVal(its[a], key)
        bVal == SortVal(its[b], key)
        mult == IF dir = "asc" THEN 1 ELSE -1
    IN  mult * (IF aVal = bVal THEN (IF a < b THEN -1 ELSE 1)
                ELSE IF StrLess(aVal, bVal) THEN -1 ELSE 1)

\* the comparator of lines 732-737
Compare(its, a, b, key, dir) ==
    LET aVal == SortVal(its[a], key)
        bVal == SortVal(its[b], key)
        mult == IF dir = "asc" THEN 1 ELSE -1
    IN  mult * (IF aVal = bVal THEN 0 ELSE IF StrLess(aVal, bVal) THEN -1 ELSE 1)

\* Array.prototype.sort is stable: x goes behind every element that does
\* not compare greater than it
RECURSIVE Insert(_, _, _, _, _)
Insert(its, sorted, x, key, dir) ==
    IF sorted = <<>> THEN <<x>>
    ELSE IF Compare(its, sorted[Len(sorted)], x, key, dir) > 0
         THEN Append(Insert(its, SubSeq(sorted, 1, Len(sorted) - 1), x, key, dir),
                     sorted[Len(sorted)])
         ELSE Append(sorted, x)

RECURSIVE SortFrom(_, _, _, _, _)
SortFrom(its, sorted, rest, key, dir) ==
    IF rest = <<>> THEN sorted
    ELSE SortFrom(its, Insert(its, sorted, Head(rest), key, dir), Tail(rest), key, dir)

\* [...list].sort(comparator) (lines 733-737)
SortStage(its, list, key, dir) == SortFrom(its, <<>>, list, key, dir)

\* filtered (lines 728-739)
Filtered(its, q, cf, wf, key, dir) ==
    SortStage(its, CategoricalStage(its, TextStage(its, q), cf, wf), key, dir)

filtered == Filtered(items, query, crafterFilter, workshopFilter, sortKey, sortDir)

SortKeys == {"CraftedItem", "Crafter", "Workshop"}

\* items after the memo ran with list.sort(comparator) in place of the copy:
\* without a query and a filter, list is items itself
itemsSortedInPlace(its, q, cf, wf, key, dir) ==
    IF Trim(q) = "" /\ cf = "All" /\ wf = "All"
    THEN LET order == Filtered(its, q, cf, wf, key, dir)
         IN  [k \in 1..Len(its) |-> its[order[k]]]
    ELSE its

\* items after the memo of lines 728-739 ran: fuse.search and filter build
\* new arrays, and the sort is given a copy ([...list]), so no stage
\* writes to items
itemsAfterMemo(its, q, cf, wf, key, dir) == its

\* the render that follows a change of the memo's inputs (line 738)
Recompute ==
    items' = itemsAfterMemo(items, query', crafterFilter', workshopFilter', sortKey', sortDir')

----------------------------------------------------------------------------
(* The scraper (src/scraper/index.js): what the wiki answers, and what     *)
(* main makes of it                                                        *)

\* A JSON value: its type; for an element object its CraftedItem (Absent
\* without the key, NotText when it is not a string); for an array its
\* elements, for any other object of the payload its Object.values
Json(type, name, elems) == [type |-> type, name |-> name, elems |-> elems]

NotText == "<number>"

JsonScalar(type) == Json(type, Absent, <<>>)
JsonRecipe(name) == Json("object", name, <<>>)
JsonArray(elems) == Json("array", Absent, elems)
JsonObject(values) == Json("object", Absent, values)

\* what an array of the payload can hold: a recipe, a recipe of a blank
\* name, objects without a usable CraftedItem, a number, null
JsonElements ==
    { JsonRecipe("Axe"), JsonRecipe("  "), JsonRecipe(Absent), JsonRecipe(NotText),
      JsonScalar("number"), JsonScalar("null") }

JsonArrays == { JsonArray(e) : e \in UNION {[1..n -> JsonElements] : n \in 0..MaxPayload} }

\* objects of the payload: no key, keys of arrays, keys of recipes, mixed
JsonObjects ==
    { JsonObject(v) :
        v \in { <<>>,
                << JsonArray(<<>>) >>,
                << JsonArray(<< JsonRecipe("Axe") >>) >>,
                << JsonArray(<<>>), JsonArray(<< JsonRecipe("Axe"), JsonScalar("number") >>) >>,
                << JsonArray(<< JsonScalar("null") >>), JsonArray(<< JsonRecipe("Axe") >>) >>,
                << JsonRecipe("Axe") >>,
                << JsonRecipe("Axe"), JsonScalar("number") >>,
                << JsonScalar("string") >>,
                << JsonArray(<< JsonRecipe("Axe") >>), JsonRecipe("Axe") >> } }

\* answers of the wiki: the request fails, a status that is not ok, text
\* that is not JSON, JSON that is no object, an array or an object
ScrapeResponses ==
    { [ok |-> FALSE, status |-> st, data |-> JsonScalar("none")] :
          st \in {"404", "500", "network"} }
        \cup { [ok |-> TRUE, status |-> "200", data |-> d] :
                   d \in { JsonScalar("notJson"), JsonScalar("null"), JsonScalar("number"),
                           JsonScalar("string") } \cup JsonArrays \cup JsonObjects }

\* Array.prototype.flat on an array of arrays (line 64)
RECURSIVE Flat(_)
Flat(arrays) ==
    IF arrays = <<>> THEN <<>> ELSE Head(arrays).elems \o Flat(Tail(arrays))

\* normalizeToArray (lines 60-68)
normalizeToArray(data) ==
    IF data.type = "array" THEN data.elems
    ELSE IF data.type = "object"
    THEN IF \A i \in 1..Len(data.elems) : data.elems[i].type = "array"
         THEN Flat(data.elems)
         ELSE data.elems
    ELSE <<>>

\* isValidRecipeData (lines 74-81): the first item alone is looked at
isValidRecipeData(data) ==
    LET its == normalizeToArray(data)
    IN  /\ Len(its) > 0
        /\ its[1].type \in {"object", "array"}
        /\ its[1].name \notin {Absent, NotText}
        /\ Trim(its[1].name) # ""

\* fetchCraftingRecipes (lines 30-58) throws
FetchThrows(resp) ==
    \/ ~resp.ok
    \/ resp.data.type = "notJson"
    \/ resp.data.type \notin {"object", "array"}

\* how a run of the scraper ends: the exit code and the file it wrote
Outcome(code, wrote, file) == [code |-> code, wrote |-> wrote, file |-> file]

\* main (lines 83-107): a throw of the fetch ends in the catch of line 104,
\* invalid data in the exit of line 94, and nothing is written; valid data
\* is written as it was fetched (line 101)
main(resp) ==
    IF FetchThrows(resp) THEN Outcome(1, FALSE, JsonScalar("none"))
    ELSE IF ~isValidRecipeData(resp.data) THEN Outcome(1, FALSE, JsonScalar("none"))
    ELSE Outcome(0, TRUE, resp.data)

----------------------------------------------------------------------------
(* The session: Home after the dataset has loaded *)

Event(op, name, res) == [op |-> op, name |-> name, res |-> res]

Init ==
    /\ items = SessionItems
    /\ crafters = NoList
    /\ workshops = NoList
    /\ loading = FALSE
    /\ error = Null
    /\ query = ""
    /\ crafterFilter = "All"
    /\ workshopFilter = "All"
    /\ sortKey = "CraftedItem"
    /\ sortDir = "asc"
    /\ panelStack = <<>>
    /\ obtainingByItem = [n \in ItemNames(SessionItems) |-> Undefined]
    /\ inflight = [n \in ItemNames(SessionItems) |-> [sections |-> 0, text |-> 0]]
    /\ unhandled = FALSE
    /\ search = Quiet("")
    /\ run = NoRun
    /\ last = Event("init", "", "")

Top(stack) == stack[Len(stack)]

\* String(k) for the positions and indices kept in `last`
IndexName(k) == <<"0", "1", "2", "3", "4", "5", "6">>[k + 1]

\* the stack of a card click taken from craftableByName instead
CardStackFromIndex(its, i) == <<craftableByName(its, its[i].CraftedItem)>>

\* the stack set by handleCardClick (line 689): [recipe]
CardStack(its, i) == <<i>>

\* handleCardClick (lines 687-693): a card of the result list is activated
handleCardClick(i) ==
    /\ panelStack' = CardStack(items, i)
    /\ fetchObtaining(items[i].CraftedItem)
    /\ last' = Event("handleCardClick", items[i].CraftedItem, IndexName(i))
    /\ UNCHANGED <<run, search, storeVars, queryVars, unhandled>>

\* the stack updater of openIngredient without the test of line 760
PushRecipeAlwaysSeeding(prev, parentRecipe, recipe) == <<parentRecipe, recipe>>

\* the stack updater of openIngredient (lines 759-762)
PushRecipe(prev, parentRecipe, recipe) ==
    IF prev = <<>> THEN <<parentRecipe, recipe>> ELSE Append(prev, recipe)

\* openIngredient that requests the Obtaining text of the card it was
\* called from
openIngredientFetchingParent(name, parent) ==
    /\ Len(panelStack) < MaxStack
    /\ LET recipe == craftableByName(items, name)
       IN  IF recipe = 0
           THEN /\ UNCHANGED <<panelStack, obtainingByItem, inflight>>
                /\ last' = Event("openIngredient", "", name)
           ELSE /\ panelStack' = PushRecipe(panelStack, parent, recipe)
                /\ fetchObtaining(items[parent].CraftedItem)
                /\ last' = Event("openIngredient", name, name)
    /\ UNCHANGED <<run, search, storeVars, queryVars, unhandled>>

\* openIngredient (lines 755-766): an ingredient of the card of record
\* parent is activated, in the result list or in the side panel
openIngredient(name, parent) ==
    /\ Len(panelStack) < MaxStack
    /\ LET recipe == craftableByName(items, name)
       IN  IF recipe = 0
           THEN /\ UNCHANGED <<panelStack, obtainingByItem, inflight>>
                /\ last' = Event("openIngredient", "", name)
           ELSE /\ panelStack' = PushRecipe(panelStack, parent, recipe)
                /\ fetchObtaining(name)
                /\ last' = Event("openIngredient", name, name)
    /\ UNCHANGED <<run, search, storeVars, queryVars, unhandled>>

\* prev.slice(0, index): the entry at index is dropped too
PopUpdaterExclusive(prev, index) == SubSeq(prev, 1, index)

\* the stack updater of popToIndex (line 769): prev.slice(0, index + 1)
PopUpdater(prev, index) == SubSeq(prev, 1, index + 1)

\* popToIndex (lines 768-770) and the effect of the render that follows;
\* op tells the breadcrumb from Back
popToIndex(op, index) ==
    /\ panelStack' = PopUpdater(panelStack, index)
    /\ FetchOnTop(panelStack')
    /\ last' = Event(op,
                     IF inflight' # inflight THEN items[Top(panelStack')].CraftedItem ELSE "",
                     IndexName(index))
    /\ UNCHANGED <<run, search, storeVars, queryVars, unhandled>>

\* the breadcrumb of entry i (line 603): i < stack.length - 1 && onPopToIndex(i)
breadcrumb(i) ==
    /\ i < Len(panelStack) - 1
    /\ popToIndex("popToIndex", i)

\* Back (lines 615-622): shown when stack.length > 1,
\* onPopToIndex(stack.length - 2)
back ==
    /\ Len(panelStack) > 1
    /\ popToIndex("back", Len(panelStack) - 2)

\* closePanel (line 772)
closePanel ==
    /\ panelStack # <<>>
    /\ panelStack' = <<>>
    /\ last' = Event("closePanel", "", "")
    /\ UNCHANGED <<run, search, storeVars, queryVars, fetchVars>>

\* Retry of ObtainingBlock (lines 536-548): shown for the top's item while
\* its state is an error
retry ==
    /\ panelStack # <<>>
    /\ obtainingByItem[items[Top(panelStack)].CraftedItem].kind = "error"
    /\ fetchObtaining(items[Top(panelStack)].CraftedItem)
    /\ last' = Event("retry", items[Top(panelStack)].CraftedItem, "")
    /\ UNCHANGED <<run, search, storeVars, queryVars, panelStack, unhandled>>

\* the promise of a fetch settles with outcome: the chain of lines 673-684
Settle(n, outcome) ==
    LET c == Chain(obtainingByItem, n, outcome)
    IN  /\ obtainingByItem' = c.table
        /\ unhandled' = (unhandled \/ c.escaped)
        /\ last' = Event("settle", n,
                         IF outcome = Fulfilled(DocThrows) THEN "thrown" ELSE outcome.tag)

\* what a completion does to the rest of Home's state: nothing
SettleFrameClosingPanel == panelStack' = <<>> /\ UNCHANGED <<run, search, storeVars, queryVars>>

SettleFrame == UNCHANGED <<run, search, storeVars, queryVars, panelStack>>

\* the first network call of a fetch for n is answered (lines 292-299)
sectionsAnswer(n, r) ==
    /\ inflight[n].sections > 0
    /\ IF AfterSections(r) = Pending
       THEN /\ inflight' = [inflight EXCEPT ![n].sections = @ - 1, ![n].text = @ + 1]
            /\ last' = Event("sectionsAnswer", n, "pending")
            /\ UNCHANGED <<obtainingByItem, unhandled>>
       ELSE /\ inflight' = [inflight EXCEPT ![n].sections = @ - 1]
            /\ Settle(n, AfterSections(r))
    /\ SettleFrame

\* the second network call of a fetch for n is answered (lines 301-307)
textAnswer(n, r) ==
    /\ inflight[n].text > 0
    /\ inflight' = [inflight EXCEPT ![n].text = @ - 1]
    /\ Settle(n, AfterText(r))
    /\ SettleFrame

----------------------------------------------------------------------------
(* The controls of the result list *)

\* toggleSort that keeps the direction when the key changes
toggleSortKeepingDirection(key) ==
    /\ IF sortKey = key
       THEN /\ sortDir' = (IF sortDir = "asc" THEN "desc" ELSE "asc")
            /\ UNCHANGED sortKey
       ELSE /\ sortKey' = key
            /\ UNCHANGED sortDir
    /\ last' = Event("toggleSort", "", key)
    /\ UNCHANGED <<run, search, loadVars, query, crafterFilter, workshopFilter, panelStack, fetchVars>>
    /\ Recompute

\* toggleSort (lines 774-783)
toggleSort(key) ==
    /\ IF sortKey = key
       THEN /\ sortDir' = (IF sortDir = "asc" THEN "desc" ELSE "asc")
            /\ UNCHANGED sortKey
       ELSE /\ sortKey' = key
            /\ sortDir' = "asc"
    /\ last' = Event("toggleSort", "", key)
    /\ UNCHANGED <<run, search, loadVars, query, crafterFilter, workshopFilter, panelStack, fetchVars>>
    /\ Recompute

\* the values a select offers besides "All": the truthy values of the field
\* (lines 695-707)
CrafterValues(its) == {its[i].Crafter : i \in 1..Len(its)} \ {""}
WorkshopValues(its) == {its[i].Workshop : i \in 1..Len(its)} \ {"", Null}

\* The strings of the model in the order of String.prototype.localeCompare
\* (lines 699, 706): letters compare before their case, lower case first.
LocaleOrder == <<"", "Axe", "Forge", "Iron", "Iron Axe", "Kiln", "Miner", "smith", "Smith", "Wood">>

LocaleRank(s) == CHOOSE i \in 1..Len(LocaleOrder) : LocaleOrder[i] = s

\* a.localeCompare(b)
localeCompare(a, b) ==
    IF LocaleRank(a) < LocaleRank(b) THEN -1 ELSE IF LocaleRank(a) > LocaleRank(b) THEN 1 ELSE 0

\* the comparator of lines 699 and 706
OptionCompare(a, b) ==
    IF a = "All" THEN -1 ELSE IF b = "All" THEN 1 ELSE localeCompare(a, b)

\* new Set(["All"]) filled by items.forEach (lines 697-698, 704-705): the
\* truthy values in the order they were first added
RECURSIVE AddAll(_, _)
AddAll(set, values) ==
    IF values = <<>> THEN set
    ELSE IF Head(values) \in {"", Null} \/ Head(values) \in SeqRange(set)
         THEN AddAll(set, Tail(values))
         ELSE AddAll(Append(set, Head(values)), Tail(values))

\* Array.prototype.sort with OptionCompare (stable)
RECURSIVE InsertOption(_, _)
InsertOption(sorted, x) ==
    IF sorted = <<>> THEN <<x>>
    ELSE IF OptionCompare(sorted[Len(sorted)], x) > 0
         THEN Append(InsertOption(SubSeq(sorted, 1, Len(sorted) - 1), x), sorted[Len(sorted)])
         ELSE Append(sorted, x)

RECURSIVE SortOptions(_, _)
SortOptions(sorted, rest) ==
    IF rest = <<>> THEN sorted
    ELSE SortOptions(InsertOption(sorted, Head(rest)), Tail(rest))

\* the options built from the records whatever the payload supplied
OptionsAlwaysDerived(fromData, values) == SortOptions(<<>>, AddAll(<<"All">>, values))

\* the body of the two memos (lines 696-699, 703-706): fromData is the
\* payload's list, values the field of every record in dataset order
Options(fromData, values) ==
    IF fromData # NoList /\ Len(fromData) > 0
    THEN <<"All">> \o fromData
    ELSE SortOptions(<<>>, AddAll(<<"All">>, values))

\* crafterOptions (lines 695-700)
crafterOptions == Options(crafters, [i \in 1..Len(items) |-> items[i].Crafter])

\* workshopOptions (lines 702-707)
workshopOptions == Options(workshops, [i \in 1..Len(items) |-> items[i].Workshop])

\* the crafter select (line 815)
setCrafterFilter(opt) ==
    /\ crafterFilter' = opt
    /\ last' = Event("setCrafterFilter", "", "")
    /\ UNCHANGED <<run, search, loadVars, query, workshopFilter, sortKey, sortDir, panelStack, fetchVars>>
    /\ Recompute

\* the workshop select (line 830)
setWorkshopFilter(opt) ==
    /\ workshopFilter' = opt
    /\ last' = Event("setWorkshopFilter", "", "")
    /\ UNCHANGED <<run, search, loadVars, query, crafterFilter, sortKey, sortDir, panelStack, fetchVars>>
    /\ Recompute

\* handleCrafterClick (lines 741-746): the crafter badge of a card
handleCrafterClick(crafter) ==
    /\ crafterFilter' = crafter
    /\ workshopFilter' = "All"
    /\ query' = ""
    /\ search' = ParentSync(search, query, "")
    /\ last' = Event("handleCrafterClick", "", crafter)
    /\ UNCHANGED <<run, loadVars, sortKey, sortDir, panelStack, fetchVars>>
    /\ Recompute

\* handleWorkshopClick (lines 748-753): the workshop badge of a card
handleWorkshopClick(workshop) ==
    /\ workshopFilter' = workshop
    /\ crafterFilter' = "All"
    /\ query' = ""
    /\ search' = ParentSync(search, query, "")
    /\ last' = Event("handleWorkshopClick", "", workshop)
    /\ UNCHANGED <<run, loadVars, sortKey, sortDir, panelStack, fetchVars>>
    /\ Recompute

\* setQuery, the onChange of SearchInput (line 809), called by the timer of
\* a box that holds q
setQuery(q) ==
    /\ query' = q
    /\ search' = Quiet(q)
    /\ last' = Event("setQuery", "", "")
    /\ UNCHANGED <<run, loadVars, crafterFilter, workshopFilter, sortKey, sortDir, panelStack, fetchVars>>
    /\ Recompute

\* the user edits the search box: onChange of the input (line 388)
inputOnChange(v) ==
    /\ Rendered
    /\ v # search.local
    /\ search' = setLocal(search, v)
    /\ last' = Event("inputOnChange", "", v)
    /\ UNCHANGED <<run, storeVars, queryVars, panelStack, fetchVars>>

\* TickMs pass, no later than the pending timer is due
Tick ==
    /\ search.pending
    /\ search.left > 0
    /\ search' = [search EXCEPT !.left = @ - 1,
                                 !.idle = IF @ < Ticks THEN @ + 1 ELSE @]
    /\ UNCHANGED <<run, storeVars, queryVars, panelStack, fetchVars, last>>

\* the timer is due: () => onChange(local) with the local of the render that
\* set it (line 380), onChange being setQuery (line 809); if the value prop
\* changed the effect of lines 375-377 follows
timerFires ==
    /\ search.pending
    /\ search.left = 0
    /\ query' = search.val
    /\ search' = ParentSync(Box(search.local, FALSE, "", 0, search.idle),
                             query, search.val)
    /\ last' = Event("timerFires", "", search.val)
    /\ UNCHANGED <<run, loadVars, crafterFilter, workshopFilter, sortKey, sortDir,
                   panelStack, fetchVars>>
    /\ Recompute

----------------------------------------------------------------------------
(* useItems (lines 323-361): the dataset fetch and what becomes of its     *)
(* answer                                                                  *)

\* an item of the compact payload (lines 313-319, SHORT_KEYS of copy-data)
ShortItem(n, c, w, w2, q, s, sq) ==
    [n |-> n, c |-> c, w |-> w, w2 |-> w2, q |-> q, s |-> s, sq |-> sq]

\* a compact item of the keys n, c, w, s alone
Short(n, c, w, s) == ShortItem(n, c, w, Absent, Absent, s, AbsentQuantities)

\* expandItem with "" for a workshop that is null or missing
expandItemBlankWorkshop(short) ==
    CraftingRecipe(
        IF short.n \in {Absent, Null} THEN "" ELSE short.n,
        IF short.c \in {Absent, Null} THEN "" ELSE short.c,
        IF short.w \in {Absent, Null} THEN "" ELSE short.w,
        IF short.w2 \in {Absent, Null} THEN "" ELSE short.w2,
        IF short.q \in {Absent, Null} THEN "" ELSE short.q,
        IF short.s \in {AbsentList, NoList} THEN <<>> ELSE short.s,
        IF short.sq \in {AbsentQuantities, NullQuantities} THEN <<>> ELSE short.sq)

\* expandItem (lines 311-321): v ?? d for each key
expandItem(short) ==
    CraftingRecipe(
        IF short.n \in {Absent, Null} THEN "" ELSE short.n,
        IF short.c \in {Absent, Null} THEN "" ELSE short.c,
        IF short.w \in {Absent, Null} THEN Null ELSE short.w,
        IF short.w2 \in {Absent, Null} THEN Null ELSE short.w2,
        IF short.q \in {Absent, Null} THEN "" ELSE short.q,
        IF short.s \in {AbsentList, NoList} THEN <<>> ELSE short.s,
        IF short.sq \in {AbsentQuantities, NullQuantities} THEN <<>> ELSE short.sq)

\* x != null of copy-data's shorten
Given(x) == x \notin {Absent, Null}
GivenList(x) == x \notin {AbsentList, NoList}
GivenQuantities(x) == x \notin {AbsentQuantities, NullQuantities}

\* shorten that writes the second workshop under the key of the first
shortenOneWorkshopKey(item) ==
    ShortItem(
        IF Given(item.CraftedItem) THEN item.CraftedItem ELSE Absent,
        IF Given(item.Crafter) THEN item.Crafter ELSE Absent,
        IF Given(item.Workshop2) THEN item.Workshop2
        ELSE IF Given(item.Workshop) THEN item.Workshop ELSE Absent,
        Absent,
        IF Given(item.CraftedQuantity) THEN item.CraftedQuantity ELSE Absent,
        IF GivenList(item.SourceItem) THEN item.SourceItem ELSE AbsentList,
        IF GivenQuantities(item.SourceQuantity) THEN item.SourceQuantity
        ELSE AbsentQuantities)

\* shorten of copy-data (part_002 lines 25-35): a field that is not null
\* goes under its short key
shorten(item) ==
    ShortItem(
        IF Given(item.CraftedItem) THEN item.CraftedItem ELSE Absent,
        IF Given(item.Crafter) THEN item.Crafter ELSE Absent,
        IF Given(item.Workshop) THEN item.Workshop ELSE Absent,
        IF Given(item.Workshop2) THEN item.Workshop2 ELSE Absent,
        IF Given(item.CraftedQuantity) THEN item.CraftedQuantity ELSE Absent,
        IF GivenList(item.SourceItem) THEN item.SourceItem ELSE AbsentList,
        IF GivenQuantities(item.SourceQuantity) THEN item.SourceQuantity
        ELSE AbsentQuantities)

\* the ingredients of a card, cut to the shorter of the two lists
ingredientsZipped(recipe) ==
    LET n == IF Len(recipe.SourceQuantity) < Len(recipe.SourceItem)
             THEN Len(recipe.SourceQuantity) ELSE Len(recipe.SourceItem)
    IN  [i \in 1..n |-> [name |-> recipe.SourceItem[i], qty |-> recipe.SourceQuantity[i]]]

\* the ingredients of a card (lines 430-433): one per element of SourceItem
\* with SourceQuantity[i] ?? 1
ingredients(recipe) ==
    [i \in 1..Len(recipe.SourceItem) |->
        [name |-> recipe.SourceItem[i],
         qty |-> IF i <= Len(recipe.SourceQuantity)
                 THEN recipe.SourceQuantity[i] ELSE 1]]

\* payload.items.map(expandItem) (line 347)
ExpandAll(shorts) == [i \in 1..Len(shorts) |-> expandItem(shorts[i])]

\* the message of the Error thrown at line 335 with every status alike
LoadErrorSame(status) == "Failed to load"

\* the message of the Error thrown at line 335
LoadError(status) ==
    IF status = "404" THEN "No data. Run npm run scrape and npm run build."
    ELSE "Failed to load"

\* The bodies the dataset fetch can answer with: text that is not JSON, a
\* plain array of records, the compact object, a compact object whose
\* items is not an array, and JSON of neither shape.
ArrayBody(its) ==
    [shape |-> "array", items |-> its, shorts |-> <<>>, crafters |-> NoList, workshops |-> NoList]
CompactBody(shorts, cs, ws) ==
    [shape |-> "compact", items |-> <<>>, shorts |-> shorts, crafters |-> cs, workshops |-> ws]
OtherBody(shape) ==
    [shape |-> shape, items |-> <<>>, shorts |-> <<>>, crafters |-> NoList, workshops |-> NoList]

Store(its, cs, ws, err) == [items |-> its, crafters |-> cs, workshops |-> ws, error |-> err]

\* the then-callback of lines 338-355 followed by the catch of line 356:
\* the store after a body that parsed as JSON
ShapeCallback(prev, body) ==
    IF body.shape = "array" THEN Store(body.items, NoList, NoList, prev.error)
    ELSE IF body.shape = "compact"
         THEN Store(ExpandAll(body.shorts), body.crafters, body.workshops, prev.error)
    ELSE IF body.shape = "itemsNotArray"
         THEN Store(prev.items, prev.crafters, prev.workshops,
                    "payload.items.map is not a function")
    ELSE Store(<<>>, NoList, NoList, prev.error)

\* the chain of lines 333-356 on an answer r of the fetch
LoadChain(prev, r) ==
    IF ~r.ok
    THEN Store(prev.items, prev.crafters, prev.workshops, LoadError(r.status))
    ELSE IF r.body.shape = "notJson"
         THEN Store(prev.items, prev.crafters, prev.workshops, "Unexpected token < in JSON")
    ELSE ShapeCallback(prev, r.body)

\* the dataset fetch is answered: the chain, then finally (line 357). The
\* Obtaining table has no key yet; it is laid out over the names of the
\* dataset that was loaded.
loadAnswer(r) ==
    /\ loading
    /\ LET out == LoadChain(Store(items, crafters, workshops, error), r)
       IN  /\ items' = out.items
           /\ crafters' = out.crafters
           /\ workshops' = out.workshops
           /\ error' = out.error
           /\ obtainingByItem' = [n \in ItemNames(out.items) |-> Undefined]
           /\ inflight' = [n \in ItemNames(out.items) |-> [sections |-> 0, text |-> 0]]
    /\ loading' = FALSE
    /\ search' = IF Rendered' THEN Mounted(query) ELSE search
    /\ last' = Event("loadAnswer", r.status, r.body.shape)
    /\ UNCHANGED <<run, queryVars, panelStack, unhandled>>

----------------------------------------------------------------------------
(* Specifications *)

CardClick == \E i \in SeqRange(filtered) : handleCardClick(i)

\* ingredient buttons are on the cards of the result list and on the card
\* of the side panel (lines 635-639, 867-877)
IngredientClick ==
    \E parent \in SeqRange(filtered)
                    \cup (IF panelStack = <<>> THEN {} ELSE {Top(panelStack)}) :
        \E name \in SeqRange(items[parent].SourceItem) : openIngredient(name, parent)

PopTo == \E i \in 0..(Len(panelStack) - 1) : breadcrumb(i)

SectionsAnswer == \E n \in DOMAIN inflight : \E r \in SectionsResponses : sectionsAnswer(n, r)

TextAnswer == \E n \in DOMAIN inflight : \E r \in TextResponses : textAnswer(n, r)

ToggleSort == \E key \in SortKeys : toggleSort(key)

CrafterBadge ==
    \E i \in SeqRange(filtered) : items[i].Crafter # "" /\ handleCrafterClick(items[i].Crafter)

WorkshopBadge ==
    \E i \in SeqRange(filtered) :
        items[i].Workshop \notin {"", Null} /\ handleWorkshopClick(items[i].Workshop)

\* the selects offer crafterOptions and workshopOptions (lines 813-839)
CrafterSelect == Rendered /\ \E opt \in SeqRange(crafterOptions) : setCrafterFilter(opt)

WorkshopSelect == Rendered /\ \E opt \in SeqRange(workshopOptions) : setWorkshopFilter(opt)

Search == \E q \in Queries : setQuery(q)

Next ==
    \/ CardClick
    \/ IngredientClick
    \/ PopTo
    \/ back
    \/ closePanel
    \/ retry
    \/ SectionsAnswer
    \/ TextAnswer
    \/ WorkshopBadge

\* the detail panel and the Obtaining fetcher, on the session's dataset
Spec == Init /\ [][Next]_vars

\* Records of the datasets drawn for the result list: two names, equal and
\* distinct crafters, crafters that differ in case only, a missing crafter
\* and a missing workshop.
RecipeUniverse ==
    { Recipe("Axe", "Smith", "Forge", <<>>),
      Recipe("Axe", "Miner", Null, <<>>),
      Recipe("Iron Axe", "Miner", "Forge", <<>>),
      Recipe("Iron Axe", "smith", "Forge", <<>>),
      Recipe("Iron Axe", "", Null, <<>>) }

QueryDatasets == UNION {[1..n -> RecipeUniverse] : n \in 0..MaxItems}

InitQuery ==
    /\ items \in QueryDatasets
    /\ crafters = NoList
    /\ workshops = NoList
    /\ loading = FALSE
    /\ error = Null
    /\ query = ""
    /\ crafterFilter = "All"
    /\ workshopFilter = "All"
    /\ sortKey = "CraftedItem"
    /\ sortDir = "asc"
    /\ panelStack = <<>>
    /\ obtainingByItem = [n \in ItemNames(items) |-> Undefined]
    /\ inflight = [n \in ItemNames(items) |-> [sections |-> 0, text |-> 0]]
    /\ unhandled = FALSE
    /\ search = Quiet("")
    /\ run = NoRun
    /\ last = Event("init", "", "")

NextQuery ==
    \/ ToggleSort
    \/ CrafterBadge
    \/ WorkshopBadge
    \/ CrafterSelect
    \/ WorkshopSelect
    \/ Search

\* the controls of the result list, on every dataset up to MaxItems records
SpecQuery == InitQuery /\ [][NextQuery]_vars

\* Items of the compact payload: every key present, keys missing, a null.
ShortUniverse ==
    { Short("Axe", "Smith", "Forge", <<"Iron">>),
      Short("Iron", "Miner", Absent, AbsentList),
      Short(Absent, "smith", Null, <<>>) }

\* lists of names a payload supplies: none, an empty one, one in the
\* producer's order, one that no record backs, one repeating a name
SuppliedLists ==
    { NoList, <<>>, <<"Miner", "Smith">>, <<"Smith", "Kiln">>, <<"Forge", "Forge">> }

\* records of the array payloads
LoadUniverse ==
    { Recipe("Axe", "Smith", "Forge", <<>>),
      Recipe("Iron", "smith", Null, <<>>),
      Recipe("Iron Axe", "", "", <<>>),
      Recipe("Wood", "Miner", "Kiln", <<>>) }

LoadBodies ==
    { ArrayBody(its) : its \in UNION {[1..n -> LoadUniverse] : n \in 0..MaxItems} }
        \cup { CompactBody(shorts, cs, ws) :
                   shorts \in UNION {[1..n -> ShortUniverse] : n \in 0..MaxShorts},
                   cs \in SuppliedLists, ws \in {NoList, <<"Forge">>} }
        \cup { OtherBody("itemsNotArray"), OtherBody("neither"), OtherBody("notJson") }

\* answers of the dataset fetch: a status that is not ok, or a body
LoadResponses ==
    { [ok |-> FALSE, status |-> st, body |-> OtherBody("none")] : st \in {"404", "500"} }
        \cup { [ok |-> TRUE, status |-> "200", body |-> b] : b \in LoadBodies }

\* Home when it is mounted: useItems has issued the fetch (lines 324-333)
InitLoad ==
    /\ items = <<>>
    /\ crafters = NoList
    /\ workshops = NoList
    /\ loading = TRUE
    /\ error = Null
    /\ query = ""
    /\ crafterFilter = "All"
    /\ workshopFilter = "All"
    /\ sortKey = "CraftedItem"
    /\ sortDir = "asc"
    /\ panelStack = <<>>
    /\ obtainingByItem = [n \in ItemNames(<<>>) |-> Undefined]
    /\ inflight = [n \in ItemNames(<<>>) |-> [sections |-> 0, text |-> 0]]
    /\ unhandled = FALSE
    /\ search = Unmounted
    /\ run = NoRun
    /\ last = Event("init", "", "")

LoadAnswer == \E r \in LoadResponses : loadAnswer(r)

NextLoad ==
    \/ LoadAnswer
    \/ CrafterSelect
    \/ WorkshopSelect

\* the dataset load and the selects it fills
SpecLoad == InitLoad /\ [][NextLoad]_vars

\* Records of the datasets drawn for the detail panel: a recipe that lists
\* its own name among its ingredients, an ingredient without a recipe, and a
\* record whose name was defaulted to "" (line 313). A dataset may hold a
\* record twice: two recipes of one name.
NavUniverse ==
    { Recipe("Axe", "Smith", "Forge", <<"Iron", "Wood">>),
      Recipe("Iron", "Miner", Null, <<"Iron", "Axe">>),
      Recipe("", "Miner", Null, <<"Axe">>) }

NavDatasets == UNION {[1..n -> NavUniverse] : n \in 0..MaxItems}

InitNav ==
    /\ items \in NavDatasets
    /\ crafters = NoList
    /\ workshops = NoList
    /\ loading = FALSE
    /\ error = Null
    /\ query = ""
    /\ crafterFilter = "All"
    /\ workshopFilter = "All"
    /\ sortKey = "CraftedItem"
    /\ sortDir = "asc"
    /\ panelStack = <<>>
    /\ obtainingByItem = [n \in ItemNames(items) |-> Undefined]
    /\ inflight = [n \in ItemNames(items) |-> [sections |-> 0, text |-> 0]]
    /\ unhandled = FALSE
    /\ search = Quiet("")
    /\ run = NoRun
    /\ last = Event("init", "", "")

\* the answer that ends a fetch at its first call: a page without sections
NavResponses ==
    { [ok |-> TRUE, status |-> "200", error |-> "", sections |-> <<>>] }

NavAnswer == \E n \in DOMAIN inflight : \E r \in NavResponses : sectionsAnswer(n, r)

NextNav ==
    \/ CardClick
    \/ IngredientClick
    \/ PopTo
    \/ back
    \/ closePanel
    \/ NavAnswer

\* the detail panel on every dataset up to MaxItems records
SpecNav == InitNav /\ [][NextNav]_vars

\* every network call is eventually answered
Answered ==
    \A n \in CraftedNames(SessionItems) :
        /\ WF_vars(\E r \in SectionsResponses : sectionsAnswer(n, r))
        /\ WF_vars(\E r \in TextResponses : textAnswer(n, r))

SpecLive == Init /\ [][Next]_vars /\ Answered

InputOnChange == \E v \in Queries : inputOnChange(v)

NextSearch == InputOnChange \/ Tick \/ timerFires \/ CrafterBadge \/ WorkshopBadge

\* the search box and the badges of the cards, on the records of the
\* session
SpecSearch == Init /\ [][NextSearch]_vars

\* a timer that is set comes due and runs its callback
SpecSearchLive ==
    Init /\ [][NextSearch]_vars /\ WF_vars(Tick) /\ WF_vars(timerFires)

\* the scraper is started and the wiki has an answer
InitScrape ==
    /\ items = <<>>
    /\ crafters = NoList
    /\ workshops = NoList
    /\ loading = TRUE
    /\ error = Null
    /\ query = ""
    /\ crafterFilter = "All"
    /\ workshopFilter = "All"
    /\ sortKey = "CraftedItem"
    /\ sortDir = "asc"
    /\ panelStack = <<>>
    /\ obtainingByItem = [n \in ItemNames(<<>>) |-> Undefined]
    /\ inflight = [n \in ItemNames(<<>>) |-> [sections |-> 0, text |-> 0]]
    /\ unhandled = FALSE
    /\ search = Unmounted
    /\ run \in {Ran("response", resp, <<>>) : resp \in ScrapeResponses}
    /\ last = Event("init", "", "")

\* npm run scrape: main runs to its end
Scrape ==
    /\ run.fn = "response"
    /\ run' = Ran("main", run.arg, main(run.arg))
    /\ UNCHANGED pageVars

SpecScrape == InitScrape /\ [][Scrape]_vars

\* The compact items given to expandItem: every key missing, null or set.
ShortItems ==
    { ShortItem(n, c, w, w2, q, sl, sq) :
        n \in {Absent, Null, "Plank"}, c \in {Absent, Null, "Carpenter"},
        w \in {Absent, Null, "Forge"}, w2 \in {Absent, Null, "Kiln"},
        q \in {Absent, Null, "2"}, sl \in {AbsentList, NoList, <<"Wood">>},
        sq \in {AbsentQuantities, NullQuantities, <<4>>} }

\* The records given to shorten and to the card: the CraftingRecipe type
\* (types/items.ts), where Workshop is a string or null and Workshop2 may
\* also be missing; the two lists need not be of one length.
WellFormedRecords ==
    { CraftingRecipe(n, c, w, w2, q, sl, sq) :
        n \in {"", "Plank"}, c \in {"", "Carpenter"},
        w \in {Null, "Forge"}, w2 \in {Absent, Null, "Kiln"},
        q \in {"", "2"},
        sl \in UNION {[1..k -> {"Wood", "Iron"}] : k \in 0..MaxSources},
        sq \in UNION {[1..k -> {2, 4}] : k \in 0..MaxQuantities} }

\* a compact item or a record is at hand
InitRecord ==
    /\ items = <<>>
    /\ crafters = NoList
    /\ workshops = NoList
    /\ loading = TRUE
    /\ error = Null
    /\ query = ""
    /\ crafterFilter = "All"
    /\ workshopFilter = "All"
    /\ sortKey = "CraftedItem"
    /\ sortDir = "asc"
    /\ panelStack = <<>>
    /\ obtainingByItem = [n \in ItemNames(<<>>) |-> Undefined]
    /\ inflight = [n \in ItemNames(<<>>) |-> [sections |-> 0, text |-> 0]]
    /\ unhandled = FALSE
    /\ search = Unmounted
    /\ run \in {Ran("short", x, <<>>) : x \in ShortItems}
                \cup {Ran("record", r, <<>>) : r \in WellFormedRecords}
    /\ last = Event("init", "", "")

\* payload.items.map(expandItem) reaches the item (line 347)
ExpandItem ==
    /\ run.fn = "short"
    /\ run' = Ran("expandItem", run.arg, expandItem(run.arg))
    /\ UNCHANGED pageVars

\* sorted.map(shorten) reaches the record (part_002 line 57)
Shorten ==
    /\ run.fn = "record"
    /\ run' = Ran("shorten", run.arg, shorten(run.arg))
    /\ UNCHANGED pageVars

\* the page expands the item copy-data wrote for the record; JSON carries
\* the strings, numbers and arrays of the item and has no missing keys to
\* drop (part_002 line 61, page.tsx lines 337 and 347)
ReadBack ==
    /\ run.fn = "shorten"
    /\ run' = Ran("readBack", run.arg, expandItem(run.out))
    /\ UNCHANGED pageVars

\* a card renders the record (lines 430-433)
Ingredients ==
    /\ run.fn = "record"
    /\ run' = Ran("ingredients", run.arg, ingredients(run.arg))
    /\ UNCHANGED pageVars

NextRecord == ExpandItem \/ Shorten \/ ReadBack \/ Ingredients

SpecRecord == InitRecord /\ [][NextRecord]_vars

----------------------------------------------------------------------------
(* Claims about the Obtaining fetcher *)

Settled(st) == st.kind \in {"text", "noSection", "error"}
Cached(st) == st.kind \in {"text", "noSection"}
Requested(e) ==
    e.op \in {"handleCardClick", "openIngredient", "popToIndex", "back", "retry"} /\ e.name # ""

\* C1: at most one fetch is in flight per item name, however the request
\* is issued.
C1_OneFetchInFlightPerName ==
    \A n \in DOMAIN inflight : InflightOf(inflight, n) <= 1

\* C2: once an item's state is text or no-section, no step starts a network
\* fetch for it.
C2_NoFetchOnceCached ==
    [][\A n \in DOMAIN inflight :
          Cached(obtainingByItem[n]) => inflight'[n].sections <= inflight[n].sections]_vars

AllowedTransition(a, b) ==
    \/ a = b
    \/ a = Undefined /\ b = Loading
    \/ a = Loading /\ Settled(b)
    \/ a.kind = "error" /\ b = Loading

\* C3: every change of an item's state is unrequested -> loading,
\* loading -> text | no-section | error, or error -> loading.
C3_OnlyStateMachineTransitions ==
    [][\A n \in DOMAIN obtainingByItem :
          AllowedTransition(obtainingByItem[n], obtainingByItem'[n])]_vars

\* C4: a request for an item changes the table iff the item is unrequested
\* or in error, and then sets exactly that key to loading; otherwise the
\* whole table stays as it is.
C4_RequestFrame ==
    [][Requested(last') =>
          IF obtainingByItem[last'.name].kind \in {"undefined", "error"}
          THEN /\ obtainingByItem'[last'.name] = Loading
               /\ \A m \in DOMAIN obtainingByItem \ {last'.name} :
                      obtainingByItem'[m] = obtainingByItem[m]
          ELSE obtainingByItem' = obtainingByItem]_vars

\* a retry has run on an item in error, which is loading again
C4_Witness ==
    /\ last.op = "retry"
    /\ obtainingByItem[last.name] = Loading
    /\ \E m \in DOMAIN obtainingByItem : m # last.name /\ Settled(obtainingByItem[m])

\* C5: a fetch that fails at either network step, or while the markup is
\* reduced, leaves the item in error with a message, and no rejection
\* escapes the handlers.
C5_FailureBecomesErrorState ==
    /\ unhandled = FALSE
    /\ (last.op = "settle" /\ last.res \in {"rejected", "thrown"}) =>
          /\ obtainingByItem[last.name].kind = "error"
          /\ obtainingByItem[last.name].val # ""

\* the reduction of the markup has thrown and the item is in error
C5_Witness ==
    /\ last.op = "settle"
    /\ last.res = "thrown"
    /\ obtainingByItem[last.name].kind = "error"

\* C6: a completion for one item changes no other item's state, so results
\* of fetches completing in any order are all kept.
C6_CompletionTouchesOwnKeyOnly ==
    [][last'.op = "settle" =>
          \A m \in DOMAIN obtainingByItem \ {last'.name} :
              obtainingByItem'[m] = obtainingByItem[m]]_vars

\* a completion has just stored Iron's result next to Axe's earlier one,
\* with nothing left in flight
C6_Witness ==
    /\ last = Event("settle", "Iron", "fulfilled")
    /\ obtainingByItem["Iron"].kind = "text"
    /\ obtainingByItem["Axe"].kind = "error"
    /\ TotalInflight(inflight) = 0

\* C7: the item of the recipe on top of the stack is never unrequested, and
\* every loading item eventually is text, no-section or error.
C7_TopRequestedAndLoadingEnds ==
    /\ [](panelStack # <<>> =>
            obtainingByItem[items[Top(panelStack)].CraftedItem] # Undefined)
    /\ \A n \in CraftedNames(SessionItems) :
            (obtainingByItem[n] = Loading) ~> Settled(obtainingByItem[n])

\* Back has made a never-requested parent the top, and it is loading
C7_Witness ==
    /\ last.op = "popToIndex"
    /\ last.name # ""
    /\ obtainingByItem[last.name] = Loading

\* C8: a completion stores its result under its own key, whatever the panel
\* shows by then, and leaves the stack, the query, the filters and the sort
\* settings alone.
C8_LateCompletionFrame ==
    [][last'.op = "settle" =>
          /\ Settled(obtainingByItem'[last'.name])
          /\ UNCHANGED <<panelStack, query, crafterFilter, workshopFilter, sortKey, sortDir>>]_vars

\* a completion has arrived for an item after the panel was closed and a
\* filter was set
C8_Witness ==
    /\ last.op = "settle"
    /\ panelStack = <<>>
    /\ workshopFilter = "Forge"
    /\ Settled(obtainingByItem[last.name])

----------------------------------------------------------------------------
(* Claims about the Query Engine *)

IndexOf(list, x) == CHOOSE i \in 1..Len(list) : list[i] = x

Before(list, a, b) == IndexOf(list, a) < IndexOf(list, b)

NoFiltering == query = "" /\ crafterFilter = "All" /\ workshopFilter = "All"

\* C9 as stated: with an empty query and both filters "All" the result is
\* the dataset in its original order.
C9_IdentityInOriginalOrder ==
    NoFiltering => filtered = Positions(items)

\* C9 as amended: with an empty query and both filters "All" the result
\* holds every record of the dataset exactly once, ordered by the active
\* sort key in the active direction, records of equal key in dataset order.
C9_AllRecordsInSortOrder ==
    NoFiltering =>
        /\ Len(filtered) = Len(items)
        /\ SeqRange(filtered) = 1..Len(items)
        /\ \A p \in 1..(Len(filtered) - 1) :
              LET a == SortVal(items[filtered[p]], sortKey)
                  b == SortVal(items[filtered[p + 1]], sortKey)
              IN  \/ a = b /\ filtered[p] < filtered[p + 1]
                  \/ sortDir = "asc" /\ StrLess(a, b)
                  \/ sortDir = "desc" /\ StrLess(b, a)

\* the sort direction was toggled on an unfiltered list of three records,
\* which is not shown in dataset order
C9_Witness ==
    /\ NoFiltering
    /\ last.op = "toggleSort"
    /\ sortDir = "desc"
    /\ Len(items) = 3
    /\ filtered # Positions(items)

\* C10: for every sort key, records of equal key keep the order of the
\* filtered list in both directions, records of distinct keys are in key
\* order ascending and in the reverse order descending, and the sort
\* neither drops nor repeats a record.
C10_SortStableAndReversible ==
    \A key \in SortKeys :
        LET list == CategoricalStage(items, TextStage(items, query), crafterFilter, workshopFilter)
            asc  == SortStage(items, list, key, "asc")
            desc == SortStage(items, list, key, "desc")
        IN  /\ Len(asc) = Len(list) /\ SeqRange(asc) = SeqRange(list)
            /\ Len(desc) = Len(list) /\ SeqRange(desc) = SeqRange(list)
            /\ \A a, b \in SeqRange(list) :
                  LET aVal == SortVal(items[a], key)
                      bVal == SortVal(items[b], key)
                  IN  /\ (aVal = bVal /\ Before(list, a, b)) =>
                            Before(asc, a, b) /\ Before(desc, a, b)
                      /\ StrLess(aVal, bVal) =>
                            Before(asc, a, b) /\ Before(desc, b, a)

\* a list ranked by the search index, out of dataset order, holding records
\* of equal and of distinct keys, is shown sorted descending after a toggle
C10_Witness ==
    /\ last.op = "toggleSort"
    /\ sortDir = "desc"
    /\ query = "ax"
    /\ TextStage(items, query) # Positions(items)
    /\ \E a, b \in SeqRange(filtered) :
          a # b /\ SortVal(items[a], sortKey) = SortVal(items[b], sortKey)
    /\ \E a, b \in SeqRange(filtered) :
          SortVal(items[a], sortKey) # SortVal(items[b], sortKey)

\* C11: the categorical stage keeps exactly the records of the text-stage
\* list whose crafter is crafterFilter (unless "All") and whose workshop is
\* workshopFilter (unless "All"), compared exactly, in the order of that
\* list; applying the two filters one after the other in either order gives
\* the same list, and whether a record is kept depends on that record only.
C11_CategoricalStageIsAnd ==
    LET list == TextStage(items, query)
        out  == CategoricalStage(items, list, crafterFilter, workshopFilter)
        kept(i) == /\ (crafterFilter # "All" => items[i].Crafter = crafterFilter)
                   /\ (workshopFilter # "All" => items[i].Workshop = workshopFilter)
        crafterFirst  == CategoricalStage(items,
                            CategoricalStage(items, list, crafterFilter, "All"),
                            "All", workshopFilter)
        workshopFirst == CategoricalStage(items,
                            CategoricalStage(items, list, "All", workshopFilter),
                            crafterFilter, "All")
    IN  /\ SeqRange(out) = {i \in SeqRange(list) : kept(i)}
        /\ Len(out) = Cardinality(SeqRange(out))
        /\ \A a, b \in SeqRange(out) : Before(out, a, b) <=> Before(list, a, b)
        /\ crafterFirst = out
        /\ workshopFirst = out
        /\ \A i \in 1..Len(items) :
              (i \in SeqRange(out)) <=>
                  /\ i \in SeqRange(list)
                  /\ i \in SeqRange(CategoricalStage(items, Positions(items),
                                                     crafterFilter, workshopFilter))

\* both filters are set on a ranked list: a record passes the workshop filter
\* and fails the crafter filter by the case of one letter, another record
\* passes both
C11_Witness ==
    /\ query = "ax"
    /\ crafterFilter = "Smith"
    /\ workshopFilter = "Forge"
    /\ filtered # <<>>
    /\ \E i \in SeqRange(TextStage(items, query)) :
          /\ items[i].Crafter = "smith"
          /\ items[i].Workshop = "Forge"
          /\ i \notin SeqRange(filtered)

\* C12: a query that is empty or only whitespace does not go to the search
\* index: the text stage gives the dataset in its original order, and for
\* the filters and the sort in force the result is the result of the empty
\* query.
C12_BlankQueryBypassesIndex ==
    Trim(query) = "" =>
        /\ TextStage(items, query) = Positions(items)
        /\ filtered = SortStage(items,
                          CategoricalStage(items, Positions(items), crafterFilter, workshopFilter),
                          sortKey, sortDir)

\* a query of two spaces was typed on three records, with a filter in force
\* that keeps some of them
C12_Witness ==
    /\ query = "  "
    /\ last.op = "setQuery"
    /\ Len(items) = 3
    /\ crafterFilter = "Miner"
    /\ filtered # <<>>
    /\ Len(filtered) < 3

----------------------------------------------------------------------------
(* Claims about CraftableIndex and the Navigation Stack *)

\* the records of the dataset that make name
Holders(name) == {i \in 1..Len(items) : items[i].CraftedItem = name}

Lowest(S) == CHOOSE i \in S : \A j \in S : i <= j

\* C13 as stated: for every name that is the crafted item of one or more
\* records, the lookup gives the record of lowest dataset position among
\* them.
C13_FirstWinsForEveryName ==
    \A name \in CraftedNames(items) :
        craftableByName(items, name) = Lowest(Holders(name))

\* C13 as amended: for every non-empty name that is the crafted item of one
\* or more records the lookup gives the record of lowest dataset position
\* among them, the empty name and names without a record have no entry, an
\* ingredient click pushes the record the lookup gives, and no step changes
\* the dataset or any lookup.
C13_FirstWinsForNonEmptyNames ==
    /\ [](\A name \in ItemNames(items) :
            craftableByName(items, name) =
                IF name # "" /\ Holders(name) # {} THEN Lowest(Holders(name)) ELSE 0)
    /\ [][/\ items' = items
          /\ \A name \in ItemNames(items) :
                craftableByName(items', name) = craftableByName(items, name)
          /\ (last'.op = "openIngredient" /\ last'.name # "") =>
                Top(panelStack') = Lowest(Holders(last'.name))]_vars

\* the ingredient Axe was opened on a dataset with two Axe records and a
\* record without a name, after a fetch had settled: the first Axe record
\* is on top
C13_Witness ==
    /\ last = Event("openIngredient", "Axe", "Axe")
    /\ Cardinality(Holders("Axe")) = 2
    /\ Holders("") # {}
    /\ Top(panelStack) = Lowest(Holders("Axe"))
    /\ \E n \in DOMAIN obtainingByItem : Settled(obtainingByItem[n])

\* C14: an ingredient click on a name without an entry in CraftableIndex
\* changes neither the stack nor anything else; on a name with an entry and
\* a non-empty stack the new stack is the old one followed by the entry's
\* record, every earlier element unchanged.
C14_PushFrame ==
    [][last'.op = "openIngredient" =>
          LET name == last'.res
          IN  IF name = "" \/ Holders(name) = {}
              THEN UNCHANGED <<run, search, storeVars, queryVars, panelStack, fetchVars>>
              ELSE panelStack # <<>> =>
                      /\ Len(panelStack') = Len(panelStack) + 1
                      /\ Top(panelStack') = Lowest(Holders(name))
                      /\ \A k \in 1..Len(panelStack) : panelStack'[k] = panelStack[k]]_vars

\* Axe, which has two records, was pushed on a stack of two entries whose
\* first entry is not the record of the clicked card
C14_Witness ==
    /\ last = Event("openIngredient", "Axe", "Axe")
    /\ Len(panelStack) = 3
    /\ Top(panelStack) = Lowest(Holders("Axe"))
    /\ Cardinality(Holders("Axe")) = 2
    /\ panelStack[1] # panelStack[2]

\* C15: a breadcrumb or Back on a stack of length n asks for an index k with
\* 0 <= k < n-1 and leaves the first k+1 entries of the stack, so that the
\* new top is the old entry at k; Back is shown for n >= 2 and asks for
\* k = n-2.
C15_PopToKeepsPrefix ==
    [][last'.op \in {"popToIndex", "back"} =>
          \E k \in 0..(Len(panelStack) - 2) :
              /\ last'.res = IndexName(k)
              /\ Len(panelStack') = k + 1
              /\ \A j \in 1..(k + 1) : panelStack'[j] = panelStack[j]
              /\ last'.op = "back" => k = Len(panelStack) - 2]_vars

\* Back on a stack of three entries has left the first two
C15_Witness ==
    /\ last.op = "back"
    /\ last.res = "1"
    /\ Len(panelStack) = 2

\* C16: no two adjacent entries of the stack are the same record.
C16_NoAdjacentDuplicates ==
    \A k \in 1..(Len(panelStack) - 1) : panelStack[k] # panelStack[k + 1]

\* C17: a card click sets the stack to the clicked record alone, whichever
\* record CraftableIndex holds for its name.
C17_CardClickSeedsStack ==
    [][last'.op = "handleCardClick" =>
          \E i \in 1..Len(items) :
              /\ last'.res = IndexName(i)
              /\ last'.name = items[i].CraftedItem
              /\ Len(panelStack') = 1
              /\ panelStack'[1] = i]_vars

\* the card of the second record of a name was clicked: the stack holds that
\* record, which is not the record the lookup gives for its name
C17_Witness ==
    /\ last.op = "handleCardClick"
    /\ Len(panelStack) = 1
    /\ last.name # ""
    /\ panelStack[1] # craftableByName(items, last.name)

----------------------------------------------------------------------------
(* Claims about the dataset load *)

\* C18: when the body of the answer is JSON that is neither an array nor an
\* object with an items array, the load ends with an empty dataset and an
\* error set.
C18_NeitherShapeIsAnError ==
    (last.op = "loadAnswer" /\ last.res \in {"neither", "itemsNotArray"}) =>
        /\ items = <<>>
        /\ error # Null
        /\ ~loading

RegenerateMessage == "No data. Run npm run scrape and npm run build."

\* C19: when the fetch answers with a status that is not ok, the load ends
\* with a message set, the one asking to regenerate the dataset for 404 and
\* only for 404, with no record, with loading false, and the message is
\* shown in place of the controls.
C19_BadStatusEndsInError ==
    (last.op = "loadAnswer" /\ last.name # "200") =>
        /\ error \notin {Null, ""}
        /\ (last.name = "404") <=> (error = RegenerateMessage)
        /\ items = <<>>
        /\ crafters = NoList /\ workshops = NoList
        /\ ~loading
        /\ ~Rendered

\* the fetch was answered with 404
C19_Witness ==
    /\ last = Event("loadAnswer", "404", "none")
    /\ error = RegenerateMessage
    /\ ~loading

\* the list is the payload's, behind "All"
Verbatim(opts, supplied) == opts = <<"All">> \o supplied

\* the list is "All" followed by the truthy values of the field, each once,
\* in the order of localeCompare
Derived(opts, values) ==
    /\ opts[1] = "All"
    /\ SeqRange(opts) = {"All"} \cup values
    /\ Len(opts) = Cardinality(SeqRange(opts))
    /\ \A p \in 2..(Len(opts) - 1) : LocaleRank(opts[p]) < LocaleRank(opts[p + 1])

\* C20 as stated: a list the payload supplies is used as it is, behind
\* "All"; without one the options are derived from the records.
C20_SuppliedListVerbatim ==
    /\ crafters # NoList => Verbatim(crafterOptions, crafters)
    /\ workshops # NoList => Verbatim(workshopOptions, workshops)
    /\ crafters = NoList => Derived(crafterOptions, CrafterValues(items))
    /\ workshops = NoList => Derived(workshopOptions, WorkshopValues(items))

\* C20 as amended: a non-empty list the payload supplies is used as it is,
\* behind "All"; without a list, or with an empty one, the options are
\* derived from the records; "All" is the first option in both cases.
C20_NonEmptySuppliedListVerbatim ==
    /\ crafters \notin {NoList, <<>>} => Verbatim(crafterOptions, crafters)
    /\ workshops \notin {NoList, <<>>} => Verbatim(workshopOptions, workshops)
    /\ crafters \in {NoList, <<>>} => Derived(crafterOptions, CrafterValues(items))
    /\ workshops \in {NoList, <<>>} => Derived(workshopOptions, WorkshopValues(items))
    /\ crafterOptions[1] = "All"
    /\ workshopOptions[1] = "All"

\* the payload supplied a crafter list that names a crafter of no record and
\* no workshop list: the crafter was selected, and the workshop options
\* were derived from the records
C20_Witness ==
    /\ crafters = <<"Smith", "Kiln">>
    /\ crafterFilter = "Kiln"
    /\ last.op = "setCrafterFilter"
    /\ workshops = NoList
    /\ Len(workshopOptions) > 1
    /\ "Kiln" \notin CrafterValues(items)

----------------------------------------------------------------------------
(* Claims about the records: expandItem, shorten and the ingredients *)

\* v ?? d on a key of a compact item
OrElse(v, d) == IF v \in {Absent, Null} THEN d ELSE v

\* C21: every compact item expands to the full record, each key under its
\* field; a null or missing key gives "" for the two names and the crafted
\* quantity, null for the two workshops and the empty sequence for the
\* ingredients and their quantities. The Plank item of the spec expands to
\* the Plank record.
C21_ExpandDefaults ==
    run.fn = "expandItem" =>
        LET short == run.arg
            r == run.out
        IN  /\ r.CraftedItem = OrElse(short.n, "")
            /\ r.Crafter = OrElse(short.c, "")
            /\ r.Workshop = OrElse(short.w, Null)
            /\ r.Workshop2 = OrElse(short.w2, Null)
            /\ r.CraftedQuantity = OrElse(short.q, "")
            /\ r.SourceItem = (IF short.s \in {AbsentList, NoList} THEN <<>> ELSE short.s)
            /\ r.SourceQuantity =
                   (IF short.sq \in {AbsentQuantities, NullQuantities} THEN <<>>
                    ELSE short.sq)
            /\ short = ShortItem("Plank", "Carpenter", Null, Absent, "2", <<"Wood">>, <<4>>)
                   => r = CraftingRecipe("Plank", "Carpenter", Null, Null, "2", <<"Wood">>, <<4>>)

\* the Plank item of the spec, whose workshop is null and which has no key
\* w2, has been expanded
C21_Witness ==
    /\ run.fn = "expandItem"
    /\ run.arg = ShortItem("Plank", "Carpenter", Null, Absent, "2", <<"Wood">>, <<4>>)
    /\ run.out.Workshop = Null

\* C23: a card has exactly one ingredient per element of SourceItem;
\* ingredient i is SourceItem[i] with SourceQuantity[i], and with 1 when
\* SourceQuantity is too short to have an element i; quantities beyond the
\* last source item are left out.
C23_IngredientsByIndex ==
    run.fn = "ingredients" =>
        LET r == run.arg
            ings == run.out
        IN  /\ Len(ings) = Len(r.SourceItem)
            /\ \A i \in 1..Len(ings) :
                   /\ ings[i].name = r.SourceItem[i]
                   /\ i <= Len(r.SourceQuantity) => ings[i].qty = r.SourceQuantity[i]
                   /\ i > Len(r.SourceQuantity) => ings[i].qty = 1

\* a card rendered a record of two source items and one quantity
C23_Witness ==
    /\ run.fn = "ingredients"
    /\ Len(run.arg.SourceItem) = 2
    /\ Len(run.arg.SourceQuantity) = 1
    /\ run.out[2].qty = 1

----------------------------------------------------------------------------
(* Claims about the search box *)

Badges == {"handleCrafterClick", "handleWorkshopClick"}

\* C22: the timer of the search box sets the query only to the value the
\* box holds, and only when the box was not edited for the whole delay, so
\* a value that was replaced within the delay never becomes the query; and
\* if the user stops editing the box, the query eventually is, and stays,
\* the value the box holds.
C22_TrailingDebounce ==
    /\ [][last'.op = "timerFires" =>
             /\ query' = search.local
             /\ search.idle * TickMs >= DebounceMs]_vars
    /\ (<>[][last'.op # "inputOnChange"]_vars) => <>[](query = search.local)

\* "ax" was typed and replaced by blanks before the timer was due, and the
\* timer then made the blanks the query
C22_Witness ==
    /\ last = Event("timerFires", "", "  ")
    /\ query = "  "
    /\ search.local = "  "
    /\ ~search.pending

\* C26: a click on a crafter badge leaves crafterFilter the crafter,
\* workshopFilter "All" and the query empty, a click on a workshop badge
\* the same with the two filters exchanged, and the query then stays empty
\* until the user edits the search box, whatever timer was pending.
C26_BadgeClearsQuery ==
    /\ [](last.op = "handleCrafterClick" =>
             crafterFilter = last.res /\ workshopFilter = "All")
    /\ [](last.op = "handleWorkshopClick" =>
             workshopFilter = last.res /\ crafterFilter = "All")
    /\ [][last'.op \in Badges => query' = ""]_vars
    /\ [][last.op \in Badges /\ last'.op # "inputOnChange" => query' = ""]_vars

----------------------------------------------------------------------------
(* Claims about the sort control and the engine's inputs *)

\* C24: a click on the active sort key keeps the key and flips the
\* direction between "asc" and "desc", so that a second click restores it; a
\* click on another key makes that key the active one with direction "asc",
\* whatever the direction was; no click on a sort key changes the query, a
\* filter or the stack.
C24_ToggleSort ==
    /\ [](sortDir \in {"asc", "desc"})
    /\ [][last'.op = "toggleSort" =>
             LET key == last'.res
             IN  /\ sortKey' = key
                 /\ sortKey = key => sortDir' # sortDir
                 /\ sortKey # key => sortDir' = "asc"
                 /\ UNCHANGED <<query, crafterFilter, workshopFilter, panelStack>>]_vars

\* with a query and a crafter filter set, the Workshop key, which was the
\* active one with direction "asc", was clicked
C24_Witness ==
    /\ last = Event("toggleSort", "", "Workshop")
    /\ sortKey = "Workshop"
    /\ sortDir = "desc"
    /\ query = "ax"
    /\ crafterFilter # "All"

----------------------------------------------------------------------------
(* Claims about the scraper *)

\* a recipe object with CraftedItem, as the README has it
IsRecipeObject(e) == e.type = "object" /\ e.name \notin {Absent, NotText}

\* a non-empty array of recipe objects with CraftedItem
ValidPayload(resp) ==
    /\ resp.ok
    /\ resp.data.type = "array"
    /\ Len(resp.data.elems) > 0
    /\ \A i \in 1..Len(resp.data.elems) : IsRecipeObject(resp.data.elems[i])

\* C25: the scraper writes a file only when the wiki answered with a
\* non-empty array of recipe objects with CraftedItem; on any other answer
\* it writes nothing and exits with a failure.
C25_WritesOnlyValidData ==
    run.fn = "main" =>
        /\ run.out.wrote => ValidPayload(run.arg)
        /\ ~ValidPayload(run.arg) => ~run.out.wrote /\ run.out.code # 0

----------------------------------------------------------------------------
(* Claims about the keys and the texts of the Obtaining table *)

\* C27: an item gets its key in the Obtaining table only in a step that
\* leaves its recipe on top of the stack, so every key is the name of a
\* recipe that has been on top; a name that never was, such as the parent
\* put below the ingredient opened from the result list, has no key.
C27_KeysWereOnTop ==
    [][\A n \in DOMAIN obtainingByItem :
          (obtainingByItem[n] = Undefined /\ obtainingByItem'[n] # Undefined) =>
              /\ panelStack' # <<>>
              /\ items[Top(panelStack')].CraftedItem = n]_vars

\* Iron was opened from the Axe card of the result list: Axe lies below
\* Iron and has no key, Iron has one
C27_Witness ==
    /\ last = Event("openIngredient", "Iron", "Iron")
    /\ Len(panelStack) = 2
    /\ items[panelStack[1]].CraftedItem = "Axe"
    /\ obtainingByItem["Axe"] = Undefined
    /\ obtainingByItem["Iron"] # Undefined

\* C28: an item in state text holds a string that is not empty after
\* trimming; a fetch that is fulfilled ends in text or, when nothing but
\* blanks was extracted, in no-section; and a page without a section titled
\* "Obtaining" ends in no-section without a second network call.
C28_TextIsNeverBlank ==
    /\ [](\A n \in DOMAIN obtainingByItem :
             obtainingByItem[n].kind = "text" => Trim(obtainingByItem[n].val) # "")
    /\ [][(last'.op = "settle" /\ last'.res = "fulfilled") =>
             \/ obtainingByItem'[last'.name] = NoSection
             \/ /\ obtainingByItem'[last'.name].kind = "text"
                /\ Trim(obtainingByItem'[last'.name].val) # ""]_vars
    /\ [][(last'.op = "settle" /\ last'.res = "null") =>
             /\ obtainingByItem'[last'.name] = NoSection
             /\ inflight'[last'.name].text = inflight[last'.name].text
             /\ inflight'[last'.name].sections < inflight[last'.name].sections]_vars

\* the second call was answered with a section of which no text is left,
\* and the item is in no-section
C28_Witness ==
    /\ last.op = "settle"
    /\ last.res = "fulfilled"
    /\ obtainingByItem[last.name] = NoSection

====
